---- MODULE Spec2Model ----
(***************************************************************************)
(* Model of main.py of evds-datahub: the normalizer (normalize_df), the    *)
(* store (clean_filename, append_or_create_csv) and the harvester loop     *)
(* (fetch_all_series, the safe_get_* wrappers and the __main__ block).     *)
(*                                                                         *)
(* Representation.                                                         *)
(*  - A Timestamp is the integer month*100 + day (one fixed year), so the  *)
(*    integer order is the calendar order.  NaT is 0.                      *)
(*  - A "Tarih" cell of a persisted file is text: to_csv writes a          *)
(*    Timestamp as "YYYY-MM-DD"; the cell is the pair <<MM, DD>> of its    *)
(*    last two fields, in the order they stand in the text.                *)
(*  - A raw "Tarih"/"DATE" cell of the service is the text "DD-MM-YYYY" of *)
(*    a Timestamp, written as that Timestamp's integer, or text that is no *)
(*    date, written BadCell.                                               *)
(*  - A value is an opaque cell (a small integer).                         *)
(*  - A DataFrame is [present, cols, rows]; present = FALSE is None.       *)
(*  - A persisted file is [exists, cols, rows]; cols are the columns after *)
(*    the leading "Tarih" column, each row is [Tarih, col, val] with col   *)
(*    the one value column whose cell is not empty in that row.            *)
(***************************************************************************)
EXTENDS Integers, Sequences, FiniteSets, TLC

VARIABLES fs, build, last, run

vars == <<fs, build, last, run>>

----------------------------------------------------------------------------
(* Bounds of the model *)

\* rows of one incoming record set, and distinct values, in the store model
MaxRows == 2
MaxVal == 2
\* rows of one raw payload in the harvester model
RunMaxRows == 1

----------------------------------------------------------------------------
(* Generic helpers *)

RECURSIVE SeqsUpTo(_, _)
SeqsUpTo(S, n) ==
  IF n = 0 THEN {<<>>}
  ELSE LET shorter == SeqsUpTo(S, n - 1)
       IN shorter \cup {Append(s, x) : s \in shorter, x \in S}

Range(s) == {s[i] : i \in 1..Len(s)}

Has(s, x) == x \in Range(s)

----------------------------------------------------------------------------
(* Dates and cells *)

\* pd.NaT, what errors="coerce" turns an unparseable date into
NaT == 0

\* 2 January, 13 January, 1 February of one year
Dates == {102, 113, 201}

Vals == 1..MaxVal

Month(ts) == ts \div 100

Day(ts) == ts % 100

\* to_csv: a Timestamp is written as the text "YYYY-MM-DD"
iso_text(ts) == <<Month(ts), Day(ts)>>

\* the calendar date a reader of the file takes a "YYYY-MM-DD" cell to be
iso_date(cell) == cell[1] * 100 + cell[2]

(***************************************************************************)
(* read_csv(parse_dates=["Tarih"], dayfirst=True) and                      *)
(* to_datetime(dayfirst=True, errors="coerce") on the text of a file.      *)
(* What dayfirst does to "YYYY-MM-DD" text depends on the pandas build:    *)
(*  "iso":   the ISO 8601 parser is tried first and dayfirst is ignored,   *)
(*           so the cell reads back as the date that was written;          *)
(*  "guess": one format is guessed from the first cell, with the day       *)
(*           preferred before the month: when the last field of the first  *)
(*           cell can be a month the format is year-day-month, otherwise   *)
(*           year-month-day; a cell that does not fit the format leaves    *)
(*           the column as text in read_csv and becomes NaT in the         *)
(*           to_datetime call that follows.                                *)
(***************************************************************************)
Builds == {"iso", "guess"}

guess_datetime_format(cell) == IF cell[2] <= 12 THEN "Ydm" ELSE "Ymd"

to_datetime_text(cell, fmt) ==
  IF fmt = "Ymd" THEN cell[1] * 100 + cell[2]
  ELSE IF cell[2] <= 12 THEN cell[2] * 100 + cell[1]
  ELSE NaT

\* the Timestamps (or NaT) of the rows of an existing file after lines 109
\* and 111
read_dates(rows, b) ==
  LET fmt == IF b = "iso" \/ rows = <<>> THEN "Ymd"
             ELSE guess_datetime_format(rows[1].Tarih)
  IN [i \in 1..Len(rows) |-> to_datetime_text(rows[i].Tarih, fmt)]

----------------------------------------------------------------------------
(* DataFrames and files *)

NoneDf == [present |-> FALSE, cols |-> <<>>, rows |-> <<>>]

NoFile == [exists |-> FALSE, cols |-> <<>>, rows |-> <<>>]

\* the guard of line 100 without its df.empty half
is_no_data_none_only(df) == ~df.present

\* df is None or df.empty
is_no_data(df) == ~df.present \/ df.rows = <<>> \/ df.cols = <<>>

\* df.to_csv(fname, index=False): header and rows in the frame's order
to_csv(cols, rows) ==
  [exists |-> TRUE,
   cols |-> cols,
   rows |-> [i \in 1..Len(rows) |->
               [Tarih |-> iso_text(rows[i].Tarih), col |-> rows[i].col,
                val |-> rows[i].val]]]

\* pd.read_csv(fname, parse_dates=["Tarih"], dayfirst=True) followed by the
\* re-parse of line 111, for the rows that come from the file
read_csv(file, b) ==
  LET ts == read_dates(file.rows, b)
  IN [i \in 1..Len(file.rows) |->
        [Tarih |-> ts[i], col |-> file.rows[i].col, val |-> file.rows[i].val]]

\* pd.concat([old, df]): the union of the columns in order of appearance
concat_cols(oldcols, dfcols) ==
  oldcols \o SelectSeq(dfcols, LAMBDA c : ~Has(oldcols, c))

dropna(rows) == SelectSeq(rows, LAMBDA r : r.Tarih # NaT)

MinDate(rows, I) == CHOOSE m \in {rows[i].Tarih : i \in I} :
                      \A i \in I : m <= rows[i].Tarih

(***************************************************************************)
(* sort_values("Tarih") with the default kind="quicksort", which is not a  *)
(* stable sort: the result is ordered by date and rows of equal date stand *)
(* in an order the library does not fix.  The set of the possible results. *)
(***************************************************************************)
RECURSIVE SortedOrders(_, _)
SortedOrders(rows, I) ==
  IF I = {} THEN {<<>>}
  ELSE LET m == MinDate(rows, I)
       IN UNION {{<<rows[i]>> \o t : t \in SortedOrders(rows, I \ {i})} :
                   i \in {j \in I : rows[j].Tarih = m}}

sort_values(rows) == SortedOrders(rows, 1..Len(rows))

\* drop_duplicates(subset=["Tarih"], keep="last")
drop_duplicates(rows) ==
  LET F[i \in 0..Len(rows)] ==
        IF i = 0 THEN <<>>
        ELSE IF \E j \in (i + 1)..Len(rows) : rows[j].Tarih = rows[i].Tarih
             THEN F[i - 1]
             ELSE Append(F[i - 1], rows[i])
  IN F[Len(rows)]

\* the files lines 109-118 can write for an existing file and a frame
merged_files(old, df, b) ==
  LET combined == read_csv(old, b) \o df.rows
      cols == concat_cols(old.cols, df.cols)
  IN {to_csv(cols, drop_duplicates(s)) : s \in sort_values(dropna(combined))}

----------------------------------------------------------------------------
(* Names and paths *)

\* the characters of the class [\\/*?:"<>|]
Unsafe == {"\\", "/", "*", "?", ":", "\"", "<", ">", "|"}

clean_filename(name) == SelectSeq(name, LAMBDA c : c \notin Unsafe)

\* os.path.join(DATA_DIR, main, sub, name + ".csv")
fname_of(series_name, main_category, sub_category) ==
  <<clean_filename(main_category), clean_filename(sub_category),
    clean_filename(series_name)>>

\* code.replace(".", "_")
sanitize(code) == [i \in 1..Len(code) |-> IF code[i] = "." THEN "_" ELSE code[i]]

----------------------------------------------------------------------------
(* The normalizer *)

\* pd.to_datetime(df["Tarih"], dayfirst=True, errors="coerce") on the text
\* of the service: "DD-MM-YYYY" is the integer DD*100 + MM, any other
\* integer is text that is no date
to_datetime_raw(cell) ==
  LET d == cell \div 100
      m == cell % 100
  IN IF m \in 1..12 /\ d \in 1..31 THEN m * 100 + d ELSE NaT

\* lines 70-71 left out: the fallback alias is not renamed
rename_date_never(cols) == cols

\* lines 70-71: the fallback alias is renamed when the primary one is absent
rename_date(cols) ==
  IF ~Has(cols, "Tarih") /\ Has(cols, "DATE")
  THEN [i \in 1..Len(cols) |-> IF cols[i] = "DATE" THEN "Tarih" ELSE cols[i]]
  ELSE cols

\* line 72 with the test of the column dropped
has_date_column_always(cols) == TRUE

\* line 72: "Tarih" in df.columns
has_date_column(cols) == Has(cols, "Tarih")

\* the cell of a raw row under a column of the header as the payload names
\* it: the date columns hold the date text, any other column the value
raw_cell(r, name) == IF name \in {"Tarih", "DATE"} THEN r.date ELSE r.val

normalize_df(df, code) ==
  IF is_no_data(df) THEN NoneDf
  ELSE LET cols == rename_date(df.cols)
       IN IF ~has_date_column(cols) THEN NoneDf
          ELSE LET idx == {i \in 1..Len(cols) : cols[i] # "Tarih"}
               IN IF idx = {} THEN NoneDf
                  ELSE LET first == CHOOSE i \in idx : \A j \in idx : i <= j
                           series_col == df.cols[first]
                           parsed ==
                             [i \in 1..Len(df.rows) |->
                                [Tarih |-> to_datetime_raw(df.rows[i].date),
                                 col |-> sanitize(code),
                                 val |-> raw_cell(df.rows[i], series_col)]]
                       IN [present |-> TRUE,
                           cols |-> <<sanitize(code)>>,
                           rows |-> dropna(parsed)]

----------------------------------------------------------------------------
(* The store *)

(***************************************************************************)
(* append_or_create_csv: the set of [fs, outcome] the call can end in.     *)
(* io_ok = FALSE is the file system refusing an operation of the call      *)
(* (os.makedirs, read_csv, to_csv raise OSError): the exception leaves the *)
(* function, outcome "raised".                                             *)
(***************************************************************************)
append_or_create_csv(series_name, df, main_category, sub_category, io_ok) ==
  LET fname == fname_of(series_name, main_category, sub_category)
  IN IF ~io_ok THEN {[fs |-> fs, outcome |-> "raised"]}
     ELSE IF is_no_data(df) THEN {[fs |-> fs, outcome |-> "nodata"]}
     ELSE IF ~fs[fname].exists
     THEN {[fs |-> [fs EXCEPT ![fname] = to_csv(df.cols, df.rows)],
            outcome |-> "created"]}
     ELSE {[fs |-> [fs EXCEPT ![fname] = f], outcome |-> "updated"] :
             f \in merged_files(fs[fname], df, build)}

----------------------------------------------------------------------------
(***************************************************************************)
(* The catalog of the service: two series of one sub-category carry the    *)
(* same display name up to a character clean_filename removes, one entry   *)
(* has no code, and a second main category follows the first.              *)
(***************************************************************************)

main_categories ==
  << [CATEGORY_ID |-> 1, TOPIC_TITLE_TR |-> <<"m">>],
     [CATEGORY_ID |-> 2, TOPIC_TITLE_TR |-> <<"n", ":">>] >>

get_sub_categories(cat_id) ==
  IF cat_id = 1
  THEN << [DATAGROUP_CODE |-> 11, DATAGROUP_NAME |-> <<"s">>] >>
  ELSE << [DATAGROUP_CODE |-> 21, DATAGROUP_NAME |-> <<"s">>] >>

get_series(datagroup_code) ==
  IF datagroup_code = 11
  THEN << [SERIE_NAME |-> <<"a">>, SERIE_CODE |-> <<"T", ".", "A">>],
          [SERIE_NAME |-> <<"b">>, SERIE_CODE |-> <<>>],
          [SERIE_NAME |-> <<"a", "?">>, SERIE_CODE |-> <<"T", ".", "B">>] >>
  ELSE << [SERIE_NAME |-> <<"b">>, SERIE_CODE |-> <<>>] >>

AllSeries ==
  UNION {UNION {{[s |-> get_series(g.DATAGROUP_CODE)[k], main |-> c.TOPIC_TITLE_TR,
                  sub |-> g.DATAGROUP_NAME] :
                   k \in 1..Len(get_series(g.DATAGROUP_CODE))} :
                 g \in Range(get_sub_categories(c.CATEGORY_ID))} :
           c \in Range(main_categories)}

Paths == {fname_of(e.s.SERIE_NAME, e.main, e.sub) : e \in AllSeries}

----------------------------------------------------------------------------
(* State *)

(***************************************************************************)
(* fs     the files under DATA_DIR, by path                                *)
(* build  the pandas build the program runs on                             *)
(* last   the latest call of append_or_create_csv: its path, the series    *)
(*        code and raw payload of the loop body it came from, the frame    *)
(*        it was given, the file before the call, how the call ended, and  *)
(*        whether the call before it wrote the same path from the same     *)
(*        frame                                                            *)
(* run    the position of the harvester loop and how the run ended         *)
(***************************************************************************)
NoCall ==
  [called |-> FALSE, fname |-> <<>>, code |-> <<>>, raw |-> NoneDf,
   df |-> NoneDf, before |-> NoFile, outcome |-> "none", repeat |-> FALSE]

call_record(fname, code, raw, df, outcome) ==
  [called |-> TRUE, fname |-> fname, code |-> code, raw |-> raw, df |-> df,
   before |-> fs[fname], outcome |-> outcome,
   repeat |-> /\ last.called
              /\ last.outcome \in {"created", "updated"}
              /\ last.fname = fname
              /\ last.df = df]

NoRun ==
  [status |-> "idle", api_key |-> TRUE, level |-> "main", i |-> 0, j |-> 0,
   k |-> 0, main_cats |-> <<>>, sub_cats |-> <<>>, series_df |-> <<>>]

----------------------------------------------------------------------------
(* The store on its own: calls of append_or_create_csv for one series *)

TheSeries == get_series(11)[1]

TheMain == main_categories[1].TOPIC_TITLE_TR

TheSub == get_sub_categories(1)[1].DATAGROUP_NAME

IncomingRows == [Tarih : Dates, col : {sanitize(TheSeries.SERIE_CODE)}, val : Vals]

Incoming ==
  {NoneDf} \cup
  {[present |-> TRUE, cols |-> <<sanitize(TheSeries.SERIE_CODE)>>, rows |-> rs] :
     rs \in SeqsUpTo(IncomingRows, MaxRows)}

Init ==
  /\ fs = [p \in Paths |-> NoFile]
  /\ build \in Builds
  /\ last = NoCall
  /\ run = NoRun

StoreCall ==
  \E df \in Incoming, io_ok \in BOOLEAN :
    \E r \in append_or_create_csv(TheSeries.SERIE_NAME, df, TheMain, TheSub, io_ok) :
      /\ fs' = r.fs
      /\ last' = call_record(fname_of(TheSeries.SERIE_NAME, TheMain, TheSub),
                             TheSeries.SERIE_CODE, NoneDf, df, r.outcome)
      /\ UNCHANGED <<build, run>>

Next == StoreCall

Spec == Init /\ [][Next]_vars

----------------------------------------------------------------------------
(* The harvester *)

ColNames == {"Tarih", "DATE", "V"}

Headers == {h \in SeqsUpTo(ColNames, 2) : h # <<>> /\ Cardinality(Range(h)) = Len(h)}

\* the text "02-01-YYYY", and text that is no date
RawCells == {201, 0}

\* the harvester never looks into a value: one value stands for all
RunVals == {1}

RawRows == [date : RawCells, val : RunVals]

\* what safe_get_data returns: None (also when get_data raises) or a frame
RawPayloads ==
  {NoneDf} \cup
  {[present |-> TRUE, cols |-> h, rows |-> rs] :
     h \in Headers, rs \in SeqsUpTo(RawRows, RunMaxRows)}

Ended == {"finished", "interrupted", "error", "exit"}

RunInit ==
  /\ fs = [p \in Paths |-> NoFile]
  /\ build \in Builds
  /\ last = NoCall
  /\ run \in {[NoRun EXCEPT !.status = "start", !.api_key = key] : key \in BOOLEAN}

\* lines 20-21 and 127-130: no credential ends the process; main categories
\* that cannot be fetched (or are empty) end fetch_all_series
start ==
  /\ run.status = "start"
  /\ IF ~run.api_key
     THEN run' = [run EXCEPT !.status = "exit"]
     ELSE \E ok \in BOOLEAN :
            run' = IF ok
                   THEN [run EXCEPT !.status = "running", !.level = "main",
                                    !.i = 0, !.main_cats = main_categories]
                   ELSE [run EXCEPT !.status = "finished"]
  /\ UNCHANGED <<fs, build, last>>

\* lines 132-139
for_main_cat ==
  /\ run.status = "running" /\ run.level = "main"
  /\ IF run.i = Len(run.main_cats)
     THEN run' = [run EXCEPT !.status = "finished"]
     ELSE \E ok \in BOOLEAN :
            LET cat_id == run.main_cats[run.i + 1].CATEGORY_ID
            IN run' = IF ok
                      THEN [run EXCEPT !.i = @ + 1, !.level = "sub", !.j = 0,
                                       !.sub_cats = get_sub_categories(cat_id)]
                      ELSE [run EXCEPT !.i = @ + 1]
  /\ UNCHANGED <<fs, build, last>>

\* lines 141-148
for_sub_cat ==
  /\ run.status = "running" /\ run.level = "sub"
  /\ IF run.j = Len(run.sub_cats)
     THEN run' = [run EXCEPT !.level = "main"]
     ELSE \E ok \in BOOLEAN :
            LET datagroup_code == run.sub_cats[run.j + 1].DATAGROUP_CODE
            IN run' = IF ok
                      THEN [run EXCEPT !.j = @ + 1, !.level = "series", !.k = 0,
                                       !.series_df = get_series(datagroup_code)]
                      ELSE [run EXCEPT !.j = @ + 1]
  /\ UNCHANGED <<fs, build, last>>

\* lines 150-165, and lines 174-175 when the body raises
for_series ==
  /\ run.status = "running" /\ run.level = "series"
  /\ IF run.k = Len(run.series_df)
     THEN /\ run' = [run EXCEPT !.level = "sub"]
          /\ UNCHANGED <<fs, last>>
     ELSE LET s == run.series_df[run.k + 1]
              cat_name == run.main_cats[run.i].TOPIC_TITLE_TR
              sub_name == run.sub_cats[run.j].DATAGROUP_NAME
          IN IF s.SERIE_CODE = <<>>
             THEN /\ run' = [run EXCEPT !.k = @ + 1]
                  /\ UNCHANGED <<fs, last>>
             ELSE \E df_raw \in RawPayloads, io_ok \in BOOLEAN :
                    LET df == normalize_df(df_raw, s.SERIE_CODE)
                    IN \E r \in append_or_create_csv(s.SERIE_NAME, df, cat_name,
                                                     sub_name, io_ok) :
                         /\ fs' = r.fs
                         /\ last' = call_record(
                                      fname_of(s.SERIE_NAME, cat_name, sub_name),
                                      s.SERIE_CODE, df_raw, df, r.outcome)
                         /\ run' = IF r.outcome = "raised"
                                   THEN [run EXCEPT !.k = @ + 1, !.status = "error"]
                                   ELSE [run EXCEPT !.k = @ + 1]
  /\ UNCHANGED build

\* lines 172-173: KeyboardInterrupt
interrupt ==
  /\ run.status = "running"
  /\ run' = [run EXCEPT !.status = "interrupted"]
  /\ UNCHANGED <<fs, build, last>>

\* the program is started again over the files of the earlier runs
rerun ==
  /\ run.status \in Ended
  /\ \E key \in BOOLEAN : run' = [NoRun EXCEPT !.status = "start", !.api_key = key]
  /\ UNCHANGED <<fs, build, last>>

RunNext ==
  \/ start
  \/ for_main_cat
  \/ for_sub_cat
  \/ for_series
  \/ interrupt
  \/ rerun

SpecRun == RunInit /\ [][RunNext]_vars

----------------------------------------------------------------------------
(* Properties *)

\* the dates of the rows of a file as a reader of the file sees them
file_dates(f) == [i \in 1..Len(f.rows) |-> iso_date(f.rows[i].Tarih)]

Wrote == last.called /\ last.outcome \in {"created", "updated"}

After == fs[last.fname]

\* C1: after every call of append_or_create_csv that writes the file, in
\* the create branch as in the update branch, the dates of the file are
\* non-decreasing from the first row to the last.
C1_SortInvariant ==
  \A p \in Paths :
    fs[p].exists =>
      \A i, j \in 1..Len(fs[p].rows) :
        i < j => file_dates(fs[p])[i] <= file_dates(fs[p])[j]

\* C2: after every successful write of append_or_create_csv, also for an
\* incoming set with two rows of one date, no two rows of the file have the
\* same date.
C2_UniqueDates ==
  \A p \in Paths :
    fs[p].exists =>
      \A i, j \in 1..Len(fs[p].rows) :
        i # j => file_dates(fs[p])[i] # file_dates(fs[p])[j]

\* C3: when an existing file A and a non-empty incoming set B share a date D
\* with differing values, the merged file has exactly one row for D and its
\* value is one B has for D.
C3_IncomingWins ==
  (last.called /\ last.outcome = "updated") =>
    \A a \in Range(last.before.rows), b \in Range(last.df.rows) :
      (iso_date(a.Tarih) = b.Tarih /\ a.val # b.val) =>
        /\ Cardinality({i \in 1..Len(After.rows) :
                          file_dates(After)[i] = b.Tarih}) = 1
        /\ \A i \in 1..Len(After.rows) :
             file_dates(After)[i] = b.Tarih =>
               \E c \in Range(last.df.rows) :
                 c.Tarih = b.Tarih /\ c.val = After.rows[i].val

\* C4: a second call of append_or_create_csv with the same non-empty incoming
\* set leaves the file as the first call left it, whatever the file was
\* before the first call (absent or existing).
C4_Idempotent ==
  (Wrote /\ last.repeat) => After = last.before

\* C5: a call of append_or_create_csv with an incoming set that is None or
\* has no rows writes nothing: an existing file keeps its content and an
\* absent file is not created.
C5_EmptyNoOp ==
  (last.called /\ (~last.df.present \/ last.df.rows = <<>>)) =>
    fs[last.fname] = last.before

\* C5 witness: normalize_df dropped every row of a payload (no date parsed)
\* and the call found an existing file
C5_Witness ==
  /\ last.called /\ last.outcome = "nodata"
  /\ last.raw.present /\ last.raw.rows # <<>>
  /\ last.df.present /\ last.df.rows = <<>>
  /\ last.before.exists /\ fs[last.fname] = last.before

NoDateColumn(raw) ==
  /\ raw.present /\ raw.rows # <<>>
  /\ ~Has(raw.cols, "Tarih") /\ ~Has(raw.cols, "DATE")

\* C6: for a non-empty raw payload with neither a "Tarih" nor a "DATE"
\* column normalize_df returns None, and the step of the loop leaves the
\* file of the series as it was (an absent file stays absent).
C6_MissingDateColumn ==
  (last.called /\ NoDateColumn(last.raw)) =>
    (~last.df.present /\ fs[last.fname] = last.before)

\* C6 witness: such a payload was fetched for a series whose file exists
C6_Witness ==
  /\ last.called /\ NoDateColumn(last.raw) /\ last.outcome = "nodata"
  /\ last.before.exists

\* C7: a failure while one series or one branch of the catalog is processed
\* does not leave that entry: unless the run is interrupted or has no
\* credential, the loop over the main categories runs to its end.
C7_FailureIsolation ==
  run.status \in (Ended \ {"interrupted", "exit"}) =>
    (run.level = "main" /\ run.i = Len(run.main_cats))

CatalogCodes == {e.s.SERIE_CODE : e \in {x \in AllSeries : x.s.SERIE_CODE # <<>>}}

\* C8: every persisted file holds the observations of one series code and
\* has the two columns "Tarih" and that code with "_" for ".", also when two
\* series of one sub-category have names clean_filename maps to one string.
C8_OneFilePerSeries ==
  \A p \in Paths :
    fs[p].exists =>
      \E code \in CatalogCodes :
        /\ fs[p].cols = <<sanitize(code)>>
        /\ \A r \in Range(fs[p].rows) : r.col = sanitize(code)

FallbackPayload(raw) ==
  raw.present /\ Has(raw.cols, "DATE") /\ ~Has(raw.cols, "Tarih")

\* the payload with its "DATE" column named "Tarih"
WithTarih(raw) ==
  [raw EXCEPT !.cols = [i \in 1..Len(raw.cols) |->
                          IF raw.cols[i] = "DATE" THEN "Tarih" ELSE raw.cols[i]]]

\* C9: for a raw payload with a "DATE" column and no "Tarih" column
\* normalize_df returns the record set it returns for the payload that
\* differs only in that column being named "Tarih".
C9_FallbackDate ==
  (last.called /\ FallbackPayload(last.raw)) =>
    last.df = normalize_df(WithTarih(last.raw), last.code)

\* C9 witness: a "DATE" payload was normalized to a record set with rows
C9_Witness ==
  /\ last.called /\ FallbackPayload(last.raw)
  /\ last.df.present /\ last.df.rows # <<>>

\* C10: when an existing file whose dates all parse is updated with a
\* non-empty incoming set, the dates of the file afterwards are the dates of
\* the old file and of the incoming set, and every row of the old file whose
\* date is not in the incoming set is still in the file.
C10_MergeLosesNothing ==
  (/\ last.called /\ last.outcome = "updated"
   /\ \A r \in Range(read_csv(last.before, build)) : r.Tarih # NaT) =>
    /\ Range(file_dates(After)) =
         Range(file_dates(last.before)) \cup {r.Tarih : r \in Range(last.df.rows)}
    /\ \A a \in Range(last.before.rows) :
         (\A b \in Range(last.df.rows) : b.Tarih # iso_date(a.Tarih)) =>
           a \in Range(After.rows)

====
